---- MODULE Spec2Model ----
(***************************************************************************)
(* Model of scripts/docx-to-html.mjs: the command line parser parseArgs,   *)
(* the script's main sequence, the asynchronous convertDocxToHtml and its  *)
(* catch handler; and of the style cascade of HtmlRenderer.processStyles,  *)
(* which the repository keeps outside scripts/ and spec.md section 4.3     *)
(* describes.                                                              *)
(*                                                                         *)
(* A JavaScript string is a sequence of one-character strings, so that     *)
(* startsWith, split and replace are computed character by character.      *)
(***************************************************************************)
EXTENDS Integers, Sequences, FiniteSets, TLC

VARIABLES
    pc,            \* position of the script
    arg,           \* parseArgs: the loop variable of `for (const arg of args)`
    seen,          \* parseArgs: the set of arguments the loop has consumed
    nargs,         \* parseArgs: how many arguments the loop has consumed
    options,       \* the object parseArgs builds and main completes
    out,           \* what console.log / console.error printed, in order
    exitCode,      \* status given to process.exit; Running while the process lives
    renderState,   \* the promise of docxPreview.renderAsync
    renderCalls,   \* the option objects handed to renderAsync, in order
    writeCalls,    \* number of calls of writeFileSync
    outFile,       \* the successful writes: <<path, html>>
    err,           \* message of the error convertDocxToHtml was rejected with
    catalog,       \* style cascade: the style catalog
    element,       \* style cascade: the element being rendered
    styleValue,    \* style cascade: each style's value of P after processStyles
    resolved,      \* style cascade: the element's effective value of P
    cpc            \* style cascade: position

cliVars == <<pc, arg, seen, nargs, options, out, exitCode, renderState,
             renderCalls, writeCalls, outFile, err>>
cascadeVars == <<catalog, element, styleValue, resolved, cpc>>
vars == <<cliVars, cascadeVars>>

\* Number of command line arguments a run is given at most.
MaxArgs == 3

----
\* JavaScript strings and values.

ArgHelp ==
    <<"-", "-", "h", "e", "l", "p">>
ArgH ==
    <<"-", "h">>
ArgNoWrapper ==
    <<"-", "-", "n", "o", "-", "w", "r", "a", "p", "p", "e", "r">>
ArgHideWrapperPrint ==
    <<"-", "-", "h", "i", "d", "e", "-", "w", "r", "a", "p", "p", "e", "r", "-", "p", "r", "i", "n", "t">>
ArgIgnoreWidth ==
    <<"-", "-", "i", "g", "n", "o", "r", "e", "-", "w", "i", "d", "t", "h">>
ArgIgnoreHeight ==
    <<"-", "-", "i", "g", "n", "o", "r", "e", "-", "h", "e", "i", "g", "h", "t">>
ArgIgnoreFonts ==
    <<"-", "-", "i", "g", "n", "o", "r", "e", "-", "f", "o", "n", "t", "s">>
ArgNoBreakPages ==
    <<"-", "-", "n", "o", "-", "b", "r", "e", "a", "k", "-", "p", "a", "g", "e", "s">>
ArgDebug ==
    <<"-", "-", "d", "e", "b", "u", "g">>
ArgExperimental ==
    <<"-", "-", "e", "x", "p", "e", "r", "i", "m", "e", "n", "t", "a", "l">>
ClassNamePrefix ==
    <<"-", "-", "c", "l", "a", "s", "s", "-", "n", "a", "m", "e", "=">>
ArgNoTrimXml ==
    <<"-", "-", "n", "o", "-", "t", "r", "i", "m", "-", "x", "m", "l">>
ArgRenderPageBreaks ==
    <<"-", "-", "r", "e", "n", "d", "e", "r", "-", "p", "a", "g", "e", "-", "b", "r", "e", "a", "k", "s">>
ArgBase64 ==
    <<"-", "-", "b", "a", "s", "e", "6", "4">>
ArgRenderChanges ==
    <<"-", "-", "r", "e", "n", "d", "e", "r", "-", "c", "h", "a", "n", "g", "e", "s">>
ArgRenderComments ==
    <<"-", "-", "r", "e", "n", "d", "e", "r", "-", "c", "o", "m", "m", "e", "n", "t", "s">>
ArgNoAltChunks ==
    <<"-", "-", "n", "o", "-", "a", "l", "t", "-", "c", "h", "u", "n", "k", "s">>
ArgNoHeaders ==
    <<"-", "-", "n", "o", "-", "h", "e", "a", "d", "e", "r", "s">>
ArgNoFooters ==
    <<"-", "-", "n", "o", "-", "f", "o", "o", "t", "e", "r", "s">>
ArgNoFootnotes ==
    <<"-", "-", "n", "o", "-", "f", "o", "o", "t", "n", "o", "t", "e", "s">>
ArgNoEndnotes ==
    <<"-", "-", "n", "o", "-", "e", "n", "d", "n", "o", "t", "e", "s">>
ArgBodyOnly ==
    <<"-", "-", "b", "o", "d", "y", "-", "o", "n", "l", "y">>
DocxExt ==
    <<".", "d", "o", "c", "x">>
HtmlExt ==
    <<".", "h", "t", "m", "l">>
DefaultClassName ==
    <<"d", "o", "c", "x">>

Null == [t |-> "null", v |-> <<>>]
Undefined == [t |-> "undefined", v |-> <<>>]
Str(s) == [t |-> "string", v |-> s]

\* !x for the values an option field can hold: null, undefined and '' are falsy.
Falsy(x) == x.t = "null" \/ x.t = "undefined" \/ x.v = <<>>

\* s.startsWith(p)
StartsWith(s, p) == Len(s) >= Len(p) /\ SubSeq(s, 1, Len(p)) = p

\* s.endsWith(p)
EndsWith(s, p) == Len(s) >= Len(p) /\ SubSeq(s, Len(s) - Len(p) + 1, Len(s)) = p

\* s.split(c) for a one-character separator c.
RECURSIVE Split(_, _)
Split(s, c) ==
    IF \A k \in 1..Len(s) : s[k] # c
    THEN <<s>>
    ELSE LET k == CHOOSE j \in 1..Len(s) : s[j] = c /\ \A m \in 1..(j - 1) : s[m] # c
         IN  <<SubSeq(s, 1, k - 1)>> \o Split(SubSeq(s, k + 1, Len(s)), c)

\* arr[i] with JavaScript's index from 0: undefined past the end.
At(arr, i) == IF i + 1 <= Len(arr) THEN Str(arr[i + 1]) ELSE Undefined

\* The i flag of /\.docx$/i: letters compare without case.
LowerChar(ch) ==
    CASE ch = "D" -> "d" [] ch = "O" -> "o" [] ch = "C" -> "c" [] ch = "X" -> "x"
      [] OTHER -> ch
Lower(s) == [k \in 1..Len(s) |-> LowerChar(s[k])]

\* s.replace(/\.docx$/i, '.html')
ReplaceDocxExt(s) ==
    IF Len(s) >= Len(DocxExt)
       /\ Lower(SubSeq(s, Len(s) - Len(DocxExt) + 1, Len(s))) = DocxExt
    THEN SubSeq(s, 1, Len(s) - Len(DocxExt)) \o HtmlExt
    ELSE s

----
\* parseArgs

\* options.docxOptions as parseArgs first builds it.
DefaultDocxOptions ==
    [ inWrapper |-> TRUE,
      hideWrapperOnPrint |-> FALSE,
      ignoreWidth |-> FALSE,
      ignoreHeight |-> FALSE,
      ignoreFonts |-> FALSE,
      breakPages |-> TRUE,
      debug |-> FALSE,
      experimental |-> FALSE,
      className |-> Str(DefaultClassName),
      trimXmlDeclaration |-> TRUE,
      ignoreLastRenderedPageBreak |-> TRUE,
      renderHeaders |-> TRUE,
      renderFooters |-> TRUE,
      renderFootnotes |-> TRUE,
      renderEndnotes |-> TRUE,
      useBase64URL |-> TRUE,
      renderChanges |-> FALSE,
      renderComments |-> FALSE,
      renderAltChunks |-> TRUE ]

\* The object parseArgs starts from.
InitialOptions ==
    [ input |-> Null,
      output |-> Null,
      bodyOnly |-> FALSE,
      docxOptions |-> DefaultDocxOptions ]

\* A flag's assignment writes another key's default back.
SetDocxClobber(o, key, val) ==
    [o EXCEPT !.docxOptions = [DefaultDocxOptions EXCEPT ![key] = val]]

\* A flag flips its key instead of setting it.
SetDocxToggle(o, key, val) ==
    [o EXCEPT !.docxOptions[key] = IF @ = val THEN ~val ELSE val]

\* options.docxOptions.<key> = <val>
SetDocx(o, key, val) == [o EXCEPT !.docxOptions[key] = val]

\* The class name is taken one piece too far.
ClassNameOfNext(a) == At(Split(a, "="), 2)

\* arg.split('=')[1]
ClassNameOf(a) == At(Split(a, "="), 1)

\* The positional branch: input takes the argument while it is unset, then output.
SetPositional(o, a) ==
    IF Falsy(o.input) THEN [o EXCEPT !.input = Str(a)]
    ELSE IF Falsy(o.output) THEN [o EXCEPT !.output = Str(a)]
    ELSE o

IsHelp(a) == a = ArgHelp \/ a = ArgH

\* The branches of the loop body that assign, in the order the code tests them;
\* the last branch (unknown option) assigns nothing.
ApplyArg(o, a) ==
    IF IsHelp(a) THEN o
    ELSE IF a = ArgNoWrapper THEN SetDocx(o, "inWrapper", FALSE)
    ELSE IF a = ArgHideWrapperPrint THEN SetDocx(o, "hideWrapperOnPrint", TRUE)
    ELSE IF a = ArgIgnoreWidth THEN SetDocx(o, "ignoreWidth", TRUE)
    ELSE IF a = ArgIgnoreHeight THEN SetDocx(o, "ignoreHeight", TRUE)
    ELSE IF a = ArgIgnoreFonts THEN SetDocx(o, "ignoreFonts", TRUE)
    ELSE IF a = ArgNoBreakPages THEN SetDocx(o, "breakPages", FALSE)
    ELSE IF a = ArgDebug THEN SetDocx(o, "debug", TRUE)
    ELSE IF a = ArgExperimental THEN SetDocx(o, "experimental", TRUE)
    ELSE IF StartsWith(a, ClassNamePrefix) THEN SetDocx(o, "className", ClassNameOf(a))
    ELSE IF a = ArgNoTrimXml THEN SetDocx(o, "trimXmlDeclaration", FALSE)
    ELSE IF a = ArgRenderPageBreaks THEN SetDocx(o, "ignoreLastRenderedPageBreak", FALSE)
    ELSE IF a = ArgBase64 THEN SetDocx(o, "useBase64URL", TRUE)
    ELSE IF a = ArgRenderChanges THEN SetDocx(o, "renderChanges", TRUE)
    ELSE IF a = ArgRenderComments THEN SetDocx(o, "renderComments", TRUE)
    ELSE IF a = ArgNoAltChunks THEN SetDocx(o, "renderAltChunks", FALSE)
    ELSE IF a = ArgNoHeaders THEN SetDocx(o, "renderHeaders", FALSE)
    ELSE IF a = ArgNoFooters THEN SetDocx(o, "renderFooters", FALSE)
    ELSE IF a = ArgNoFootnotes THEN SetDocx(o, "renderFootnotes", FALSE)
    ELSE IF a = ArgNoEndnotes THEN SetDocx(o, "renderEndnotes", FALSE)
    ELSE IF a = ArgBodyOnly THEN [o EXCEPT !.bodyOnly = TRUE]
    ELSE IF ~StartsWith(a, <<"-">>) THEN SetPositional(o, a)
    ELSE o

\* The flags that are compared with === and set one boolean.
BoolFlags ==
    { ArgNoWrapper, ArgHideWrapperPrint, ArgIgnoreWidth, ArgIgnoreHeight,
      ArgIgnoreFonts, ArgNoBreakPages, ArgDebug, ArgExperimental, ArgNoTrimXml,
      ArgRenderPageBreaks, ArgBase64, ArgRenderChanges, ArgRenderComments,
      ArgNoAltChunks, ArgNoHeaders, ArgNoFooters, ArgNoFootnotes, ArgNoEndnotes,
      ArgBodyOnly }

\* The final else of the loop body: an argument no branch recognises.
IsUnknown(a) ==
    /\ ~IsHelp(a)
    /\ a \notin BoolFlags
    /\ ~StartsWith(a, ClassNamePrefix)
    /\ StartsWith(a, <<"-">>)

\* Arguments the runs are given: every flag, --class-name= with an empty name, a
\* plain name and a name holding '=', options no branch knows, and file names.
ClassNameArgs ==
    { ClassNamePrefix,
      ClassNamePrefix \o <<"a">>,
      ClassNamePrefix \o <<"a", "=", "b">> }
UnknownArgs == { <<"-", "x">>, <<"-", "-", "c", "l", "a", "s", "s", "-", "n", "a", "m", "e">> }
PathArgs ==
    { <<"a">> \o DocxExt,
      <<"a", ".", "D", "O", "C", "X">>,
      <<"a", ".", "d", "o", "c">>,
      <<"o">> \o HtmlExt,
      <<>> }
ArgPool == {ArgHelp, ArgH} \cup BoolFlags \cup ClassNameArgs \cup UnknownArgs \cup PathArgs

----
\* The script: main, convertDocxToHtml and its catch handler.

\* exitCode while process.exit has not been called and the script has not ended.
Running == -1

\* Messages of the errors the file system and renderAsync raise.
ErrRead == <<"E", "N", "O", "E", "N", "T">>
ErrRender == <<"b", "a", "d", " ", "z", "i", "p">>
ErrWrite == <<"E", "A", "C", "C", "E", "S">>

\* One printed line: the stream, the fixed text and the interpolated value.
Line(stream, tag, text) == [stream |-> stream, tag |-> tag, text |-> text]

\* basename(inputPath, '.docx') for a path without directory separators.
Basename(p, ext) ==
    IF p = ext THEN <<>>
    ELSE IF EndsWith(p, ext) THEN SubSeq(p, 1, Len(p) - Len(ext))
    ELSE p

\* The html text convertDocxToHtml assembles: the two containers alone, or the
\* complete document around them, titled with the input's base name.
Html(o) ==
    IF o.bodyOnly
    THEN [full |-> FALSE, title |-> <<>>]
    ELSE [full |-> TRUE, title |-> Basename(o.input.v, DocxExt)]

\* The continuation runs while the promise is still pending (a missing await).
RenderNotAwaited == renderState \in {"pending", "resolved"}

\* `await docxPreview.renderAsync(...)`: the function resumes once the promise resolved.
RenderAwaited == renderState = "resolved"

\* The stack is printed whatever the debug option says.
StackAlways(o) == TRUE

\* `if (options.docxOptions.debug)` of the catch handler.
StackWanted(o) == o.docxOptions.debug

\* The default output path of main.
DefaultOutput(o) ==
    IF Falsy(o.output)
    THEN [o EXCEPT !.output = Str(ReplaceDocxExt(o.input.v))]
    ELSE o

cascadeIdle ==
    /\ catalog = [styles |-> <<>>, docDefault |-> "unset"]
    /\ element = [styleName |-> 0, numbering |-> "unset", direct |-> "unset"]
    /\ styleValue = <<>>
    /\ resolved = "unset"
    /\ cpc = "idle"

cliStart ==
    /\ pc = "parseArgs"
    /\ arg = <<>>
    /\ seen = {}
    /\ nargs = 0
    /\ options = InitialOptions
    /\ out = <<>>
    /\ exitCode = Running
    /\ renderState = "notcalled"
    /\ renderCalls = <<>>
    /\ writeCalls = 0
    /\ outFile = <<>>
    /\ err = <<>>

Init == cliStart /\ cascadeIdle

\* One iteration of `for (const arg of args)`.
ParseArg ==
    /\ pc = "parseArgs"
    /\ nargs < MaxArgs
    /\ \E a \in ArgPool :
        /\ arg' = a
        /\ seen' = seen \cup {a}
        /\ nargs' = nargs + 1
        /\ IF IsHelp(a)
           THEN /\ out' = Append(out, Line("stdout", "help", <<>>))
                /\ exitCode' = 0
                /\ pc' = "exited"
                /\ UNCHANGED options
           ELSE IF IsUnknown(a)
           THEN /\ out' = Append(out, Line("stderr", "Unknown option:", a))
                /\ exitCode' = 1
                /\ pc' = "exited"
                /\ UNCHANGED options
           ELSE /\ options' = ApplyArg(options, a)
                /\ UNCHANGED <<out, exitCode, pc>>
    /\ UNCHANGED <<renderState, renderCalls, writeCalls, outFile, err, cascadeVars>>

\* The loop has consumed every argument: `return options`.
ParseReturn ==
    /\ pc = "parseArgs"
    /\ pc' = "main"
    /\ UNCHANGED <<arg, seen, nargs, options, out, exitCode, renderState,
                   renderCalls, writeCalls, outFile, err, cascadeVars>>

\* Main without an input file.
MainNoInput ==
    /\ pc = "main"
    /\ Falsy(options.input)
    /\ out' = out \o << Line("stderr", "Error: No input file specified", <<>>),
                        Line("stdout", "Usage:", <<>>),
                        Line("stdout", "Use --help for more information", <<>>) >>
    /\ exitCode' = 1
    /\ pc' = "exited"
    /\ UNCHANGED <<arg, seen, nargs, options, renderState, renderCalls,
                   writeCalls, outFile, err, cascadeVars>>

\* Main with an input file: the default output path, then the call of
\* convertDocxToHtml, which runs up to its await (or to the throw of readFileSync).
MainConvert ==
    /\ pc = "main"
    /\ ~Falsy(options.input)
    /\ \E readOk \in BOOLEAN :
        LET o == DefaultOutput(options)
            head == (IF o.docxOptions.debug
                     THEN <<Line("stdout", "Options:", <<>>)>> ELSE <<>>)
                    \o <<Line("stdout", "Reading:", o.input.v)>>
        IN  /\ options' = o
            /\ IF readOk
               THEN /\ out' = out \o head \o <<Line("stdout", "Converting...", <<>>)>>
                    /\ renderCalls' = Append(renderCalls, o.docxOptions)
                    /\ renderState' = "pending"
                    /\ pc' = "await"
                    /\ UNCHANGED err
               ELSE /\ out' = out \o head
                    /\ err' = ErrRead
                    /\ pc' = "rejected"
                    /\ UNCHANGED <<renderCalls, renderState>>
    /\ UNCHANGED <<arg, seen, nargs, exitCode, writeCalls, outFile, cascadeVars>>

\* The promise of renderAsync settles.
RenderSettle ==
    /\ renderState = "pending"
    /\ \E ok \in BOOLEAN : renderState' = IF ok THEN "resolved" ELSE "rejected"
    /\ UNCHANGED <<pc, arg, seen, nargs, options, out, exitCode, renderCalls,
                   writeCalls, outFile, err, cascadeVars>>

\* The await throws the rejection of renderAsync: convertDocxToHtml is rejected.
AwaitRejected ==
    /\ pc = "await"
    /\ renderState = "rejected"
    /\ err' = ErrRender
    /\ pc' = "rejected"
    /\ UNCHANGED <<arg, seen, nargs, options, out, exitCode, renderState,
                   renderCalls, writeCalls, outFile, cascadeVars>>

\* convertDocxToHtml after its await: the html is assembled and written.
ConvertResume ==
    /\ pc = "await"
    /\ RenderAwaited
    /\ writeCalls' = writeCalls + 1
    /\ \E writeOk \in BOOLEAN :
        IF writeOk
        THEN /\ outFile' = Append(outFile, <<options.output.v, Html(options)>>)
             /\ out' = out \o << Line("stdout", "Output:", options.output.v),
                                 Line("stdout", "Done!", <<>>) >>
             /\ exitCode' = 0
             /\ pc' = "done"
             /\ UNCHANGED err
        ELSE /\ err' = ErrWrite
             /\ pc' = "rejected"
             /\ UNCHANGED <<outFile, out, exitCode>>
    /\ UNCHANGED <<arg, seen, nargs, options, renderState, renderCalls, cascadeVars>>

\* The .catch handler of main.
CatchHandler ==
    /\ pc = "rejected"
    /\ out' = out \o <<Line("stderr", "Error:", err)>>
                  \o (IF StackWanted(options)
                      THEN <<Line("stderr", "stack", err)>> ELSE <<>>)
    /\ exitCode' = 1
    /\ pc' = "exited"
    /\ UNCHANGED <<arg, seen, nargs, options, renderState, renderCalls,
                   writeCalls, outFile, err, cascadeVars>>

Next ==
    \/ ParseArg
    \/ ParseReturn
    \/ MainNoInput
    \/ MainConvert
    \/ RenderSettle
    \/ AwaitRejected
    \/ ConvertResume
    \/ CatchHandler

Spec == Init /\ [][Next]_vars

----
\* The style cascade (spec.md 4.3): one property P of one element.

\* Number of styles in the catalog.
NumStyles == 3

StyleIds == 1..NumStyles
Unset == "unset"
StyleVals == {"a", "b"}
NumberingVals == {"n"}
DirectVals == {"c"}
DefaultVals == {"d"}

\* The catalogs a load accepts: every style is based on no style (0) or on one
\* style, and the chains end (a style is based on a style of a higher id).
Catalogs ==
    [ styles : { s \in [StyleIds -> [basedOn : 0..NumStyles, P : StyleVals \cup {Unset}]] :
                   \A i \in StyleIds : s[i].basedOn = 0 \/ s[i].basedOn > i },
      docDefault : DefaultVals \cup {Unset} ]

Elements ==
    [ styleName : 0..NumStyles,
      numbering : NumberingVals \cup {Unset},
      direct : DirectVals \cup {Unset} ]

\* One merge step: an assignment of the later layer replaces the earlier one's.
Merge(base, over) == IF over # Unset THEN over ELSE base

\* The inheritance chain of style s, from s to its most distant ancestor.
RECURSIVE ChainOf(_, _)
ChainOf(styles, s) ==
    IF s = 0 THEN <<>> ELSE <<s>> \o ChainOf(styles, styles[s].basedOn)

\* The chain merged from its k-th member down to the style itself.
RECURSIVE MergeChain(_, _, _, _)
MergeChain(styles, chain, k, acc) ==
    IF k = 0 THEN acc
    ELSE MergeChain(styles, chain, k - 1, Merge(acc, styles[chain[k]].P))

\* A named style's own value of P: its chain walked from the most distant
\* ancestor to the style, descendants winning.
ResolveStyle(styles, s) ==
    LET chain == ChainOf(styles, s) IN MergeChain(styles, chain, Len(chain), Unset)

\* The numbering level is merged after the direct formatting.
EffectiveNumberingLast(default, named, numbering, direct) ==
    Merge(Merge(Merge(default, named), direct), numbering)

\* The effective value: document default, then the named style, then the
\* numbering level, then the direct formatting.
Effective(default, named, numbering, direct) ==
    Merge(Merge(Merge(default, named), numbering), direct)

InitCascade ==
    /\ cliStart
    /\ catalog \in Catalogs
    /\ element \in Elements
    /\ styleValue = <<>>
    /\ resolved = Unset
    /\ cpc = "loaded"

\* processStyles: every style's inherited value is resolved.
ProcessStyles ==
    /\ cpc = "loaded"
    /\ styleValue' = [s \in StyleIds |-> ResolveStyle(catalog.styles, s)]
    /\ cpc' = "styled"
    /\ UNCHANGED <<catalog, element, resolved, cliVars>>

\* The element is rendered with its effective value of P.
RenderElement ==
    /\ cpc = "styled"
    /\ resolved' = Effective(catalog.docDefault,
                             IF element.styleName = 0 THEN Unset
                             ELSE styleValue[element.styleName],
                             element.numbering,
                             element.direct)
    /\ cpc' = "rendered"
    /\ UNCHANGED <<catalog, element, styleValue, cliVars>>

NextCascade ==
    \/ ProcessStyles
    \/ RenderElement

SpecCascade == InitCascade /\ [][NextCascade]_vars

----
\* Properties.

OptionKeys ==
    { "inWrapper", "hideWrapperOnPrint", "ignoreWidth", "ignoreHeight", "ignoreFonts",
      "breakPages", "debug", "experimental", "className", "trimXmlDeclaration",
      "ignoreLastRenderedPageBreak", "renderHeaders", "renderFooters",
      "renderFootnotes", "renderEndnotes", "useBase64URL", "renderChanges",
      "renderComments", "renderAltChunks" }

Printed(tag) == \E k \in 1..Len(out) : out[k].tag = tag

\* convertDocxToHtml has been called.
ConvertStarted == Printed("Reading:")

\* C1: the output file is written at most once and only after renderAsync has
\* resolved; when readFileSync or renderAsync fails, writeFileSync is never called
\* and nothing is at the output path.
WriteOnlyAfterRender ==
    /\ writeCalls <= 1
    /\ Len(outFile) <= writeCalls
    /\ writeCalls >= 1 => renderState = "resolved" /\ Len(renderCalls) = 1
    /\ (err = ErrRead \/ err = ErrRender \/ renderState = "rejected")
          => writeCalls = 0 /\ outFile = <<>>

\* C1 witness: a run that wrote its output, after renderAsync resolved.
WitnessWritten ==
    /\ pc = "done"
    /\ writeCalls = 1
    /\ Len(outFile) = 1
    /\ renderState = "resolved"

\* C2: a rejected conversion ends with 'Error: <message>' and exit status 1,
\* never prints 'Done!', and prints the stack exactly when debug is true.
RejectionReported ==
    err # <<>> =>
        /\ pc \in {"rejected", "exited"}
        /\ ~Printed("Done!")
        /\ pc = "exited" =>
            /\ exitCode = 1
            /\ Printed("stack") <=> options.docxOptions.debug
            /\ LET n == Len(out)
                   e == IF options.docxOptions.debug THEN n - 1 ELSE n
               IN  /\ e >= 1
                   /\ out[e] = Line("stderr", "Error:", err)
                   /\ options.docxOptions.debug => out[n] = Line("stderr", "stack", err)

\* C2 witness: a failed write under --debug, reported with its stack.
WitnessRejectedDebug ==
    /\ pc = "exited"
    /\ err = ErrWrite
    /\ options.docxOptions.debug
    /\ Printed("stack")

\* A docxOptions object with a value for every one of the 19 keys.
FullyPopulated(d) ==
    /\ DOMAIN d = OptionKeys
    /\ Cardinality(DOMAIN d) = 19
    /\ \A k \in OptionKeys \ {"className"} : d[k] \in BOOLEAN
    /\ d.className.t = "string"

\* C3: at every step of the argument loop and at the hand-off to renderAsync,
\* every one of the 19 option keys has a defined value: a boolean for each
\* toggle, a string for className.
OptionsFullyPopulated ==
    /\ FullyPopulated(options.docxOptions)
    /\ \A i \in 1..Len(renderCalls) : FullyPopulated(renderCalls[i])

\* C3 witness: renderAsync is handed the options of a run given --class-name=
\* with an empty name.
WitnessEmptyClassName ==
    /\ ClassNamePrefix \in seen
    /\ Len(renderCalls) = 1
    /\ renderCalls[1].className = Str(<<>>)

\* C5 (as claimed): with no option flag, renderAsync is handed the defaults of
\* the usage header: wrapped, page breaks on, class prefix "docx",
\* lastRenderedPageBreak ignored, and blob URLs (useBase64URL false).
DefaultsAsDocumented ==
    (Len(renderCalls) = 1 /\ \A a \in seen : ~StartsWith(a, <<"-">>)) =>
        /\ renderCalls[1].inWrapper = TRUE
        /\ renderCalls[1].breakPages = TRUE
        /\ renderCalls[1].className = Str(DefaultClassName)
        /\ renderCalls[1].ignoreLastRenderedPageBreak = TRUE
        /\ renderCalls[1].useBase64URL = FALSE

\* The file names among the arguments consumed ('' never fills input or output).
PathsSeen == { a \in seen : ~StartsWith(a, <<"-">>) /\ a # <<>> }

\* C6 (as claimed): when no output path is given, the output path ends in
\* '.html' and is not the input path, so the input file is never overwritten.
DefaultOutputIsHtml ==
    (ConvertStarted /\ nargs = Cardinality(seen) /\ Cardinality(PathsSeen) = 1) =>
        /\ EndsWith(options.output.v, HtmlExt)
        /\ options.output # options.input
        /\ \A i \in 1..Len(outFile) : outFile[i][1] # options.input.v

\* C7 (as claimed): --class-name=NAME sets className to the whole text after the
\* first '=', also when NAME is empty or holds '='.
ClassNameIsWholeName ==
    (pc = "parseArgs" /\ nargs > 0 /\ StartsWith(arg, ClassNamePrefix)) =>
        options.docxOptions.className
            = Str(SubSeq(arg, Len(ClassNamePrefix) + 1, Len(arg)))

\* The field each argument names, after the usage header.
FieldsNamedBy(a) ==
    CASE a = ArgNoWrapper -> {"inWrapper"}
      [] a = ArgHideWrapperPrint -> {"hideWrapperOnPrint"}
      [] a = ArgIgnoreWidth -> {"ignoreWidth"}
      [] a = ArgIgnoreHeight -> {"ignoreHeight"}
      [] a = ArgIgnoreFonts -> {"ignoreFonts"}
      [] a = ArgNoBreakPages -> {"breakPages"}
      [] a = ArgDebug -> {"debug"}
      [] a = ArgExperimental -> {"experimental"}
      [] a = ArgNoTrimXml -> {"trimXmlDeclaration"}
      [] a = ArgRenderPageBreaks -> {"ignoreLastRenderedPageBreak"}
      [] a = ArgBase64 -> {"useBase64URL"}
      [] a = ArgRenderChanges -> {"renderChanges"}
      [] a = ArgRenderComments -> {"renderComments"}
      [] a = ArgNoAltChunks -> {"renderAltChunks"}
      [] a = ArgNoHeaders -> {"renderHeaders"}
      [] a = ArgNoFooters -> {"renderFooters"}
      [] a = ArgNoFootnotes -> {"renderFootnotes"}
      [] a = ArgNoEndnotes -> {"renderEndnotes"}
      [] a = ArgBodyOnly -> {"bodyOnly"}
      [] StartsWith(a, ClassNamePrefix) -> {"className"}
      [] ~StartsWith(a, <<"-">>) -> {"input", "output"}
      [] OTHER -> {}

\* The fields in which two option objects differ.
ChangedFields(o, p) ==
    { k \in OptionKeys : o.docxOptions[k] # p.docxOptions[k] }
        \cup { f \in {"input", "output", "bodyOnly"} : o[f] # p[f] }

\* C8: processing one argument changes at most one field, the one the argument
\* names, and leaves input, output, bodyOnly and every other key as they were.
FlagsIndependent ==
    [][ pc = "parseArgs" =>
          /\ ChangedFields(options, options') \subseteq FieldsNamedBy(arg')
          /\ Cardinality(ChangedFields(options, options')) <= 1 ]_vars

\* C8 witness: a third argument has set its field and the two before keep theirs.
WitnessThirdFlag ==
    /\ pc = "parseArgs"
    /\ nargs = 3
    /\ arg = ArgNoHeaders
    /\ ChangedFields(InitialOptions, options) = {"input", "debug", "renderHeaders"}

\* The arguments of S applied one after the other, in some order, each once.
RECURSIVE ApplyAll(_, _)
ApplyAll(o, S) ==
    IF S = {} THEN o
    ELSE LET a == CHOOSE x \in S : TRUE IN ApplyAll(ApplyArg(o, a), S \ {a})

\* C9: for arguments that are all boolean flags, the options depend only on the
\* set of flags given, whatever their order and repetitions, and every flag given
\* is still in force: none has been returned to its default.
FlagSetDecides ==
    seen \subseteq BoolFlags =>
        /\ options = ApplyAll(InitialOptions, seen)
        /\ \A f \in seen : ApplyArg(options, f) = options

\* C9 witness: three flag arguments, one of them a repetition, all consumed.
WitnessRepeatedFlag ==
    /\ pc = "main"
    /\ nargs = 3
    /\ seen = {ArgDebug, ArgNoWrapper}

\* The nearest style of the chain of s, s included, that sets P (0 if none does).
NearestSetter(styles, s) ==
    LET chain == ChainOf(styles, s)
        set == { k \in 1..Len(chain) : styles[chain[k]].P # Unset }
    IN  IF set = {} THEN 0
        ELSE chain[CHOOSE k \in set : \A j \in set : k <= j]

\* C4 (as claimed): direct formatting wins; otherwise the named style's value;
\* otherwise the value of the nearest ancestor of the style's chain that sets P.
CascadeDirectNamedInherited ==
    cpc = "rendered" =>
        LET near == NearestSetter(catalog.styles, element.styleName)
        IN  /\ element.direct # Unset => resolved = element.direct
            /\ (element.direct = Unset /\ near # 0)
                  => resolved = catalog.styles[near].P

\* C4 (amended): direct formatting wins; otherwise the numbering level's value;
\* otherwise the named style's; otherwise the nearest ancestor's that sets P;
\* otherwise the document default.
CascadePrecedence ==
    cpc = "rendered" =>
        LET near == NearestSetter(catalog.styles, element.styleName)
        IN  resolved =
              IF element.direct # Unset THEN element.direct
              ELSE IF element.numbering # Unset THEN element.numbering
              ELSE IF near # 0 THEN catalog.styles[near].P
              ELSE catalog.docDefault

\* C4 witness: named style P = a, its parent P = b, direct P = c: resolved to c.
WitnessDirectOverNamed ==
    /\ cpc = "rendered"
    /\ element.styleName = 1
    /\ catalog.styles[1].P = "a"
    /\ catalog.styles[1].basedOn = 2
    /\ catalog.styles[2].P = "b"
    /\ element.direct = "c"
    /\ resolved = "c"
====
